---- MODULE Spec2Model ----
(***************************************************************************)
(* Model of harness.py: the asyncio orchestrator run_all_tests, the        *)
(* supervisor run_test_in_process (run in a thread by run_test_wrapper)    *)
(* and the worker process run_test, one worker and one result queue per    *)
(* test case.                                                              *)
(*                                                                         *)
(* Python values that travel on the result queue are modelled by their     *)
(* repr: "None", "0", "1", "2", "True".  Time is abstract: p.join(timeout) *)
(* may return at any moment (the deadline is arbitrary with respect to the *)
(* worker's speed), and the worker may stay in any of its steps forever.   *)
(***************************************************************************)
EXTENDS Integers, Sequences, FiniteSets

\* ------------------------------------------------------------------ bounds
MaxTests == 2

\* ------------------------------------------------------------ input domain
\* Values scaffold.run_test_case may return (by repr).
PyVals == {"None", "0", "1", "2", "True"}

\* Test cases: name and srcfile are required, visible is optional.
TestPool ==
    << [name |-> "t1", srcfile |-> "a.py", visible |-> "absent"],
       [name |-> "t2", srcfile |-> "b.py", visible |-> "True"],
       [name |-> "t3", srcfile |-> "c.py", visible |-> "False"] >>

\* The test lists: n consecutive pool entries (cyclically) from an offset.
TestList(n, o) == [k \in 1..n |-> TestPool[((o + k - 1) % Len(TestPool)) + 1]]

TestIds == 1..MaxTests

\* ------------------------------------------------------------------- state
VARIABLES
    tests,          \* run_all_tests: the tests argument
    zero_credit,    \* run_all_tests: the zero_credit argument
    results,        \* run_all_tests: the records built so far
    console,        \* stdout, as a sequence of printed pieces
    opc,            \* position of the run_all_tests / run_test_wrapper coroutine
    idx,            \* index of the test the comprehension is at
    spc,            \* position of run_test_in_process in its thread
    ret,            \* return value of run_test_in_process
    wpc,            \* per test: position of the worker process in run_test
    exitkind,       \* per test: how the worker process ended
    terminated,     \* per test: p.terminate() has been called
    result_queue,   \* per test: content of the multiprocessing Queue
    reads,          \* per test: the supervisor's accesses to the queue
    raised,         \* per test: the scaffold call that raised in the worker
    other_task,     \* state of another task of the same event loop
    fs_dirs,        \* the directories that exist
    fs_files,       \* per path: whether the file exists, and its text
    call            \* the last call of the report functions or of get_score

vars == << tests, zero_credit, results, console, opc, idx, spc, ret,
           wpc, exitkind, terminated, result_queue, reads, raised,
           other_task, fs_dirs, fs_files, call >>

aux_vars == << other_task, fs_dirs, fs_files, call >>

orch_vars == << tests, zero_credit, results, console, opc, idx >>
sup_vars == << spc, ret, terminated, reads >>
worker_vars == << wpc, exitkind, raised >>

\* ----------------------------------------------------------------- helpers
\* A piece of console output: its kind, its text, the position of the test
\* it is about (or the number of tests), and the pass count of the summary.
Piece(kind, text, n, m) == [kind |-> kind, text |-> text, n |-> n, m |-> m]

\* bool(v) for the values of PyVals.
Truthy(v) == v \in {"1", "2", "True"}

\* The literal pattern `case 1` matches by equality with 1.
MatchesOne(v) == v \in {"1", "True"}

\* The pattern `case None`.
MatchesNone(v) == v = "None"

\* p.is_alive()
IsAlive(i) == wpc[i] \notin {"unborn", "exited"}

\* Variant of get_score: every record is counted.
get_score_all(rs) == Len(rs)

\* get_score: the number of records with a truthy score.
RECURSIVE get_score(_)
get_score(rs) ==
    IF rs = << >> THEN 0
    ELSE (IF Head(rs).score # 0 THEN 1 ELSE 0) + get_score(Tail(rs))

\* Variant of Visibility: the presence of the key decides.
VisibilityIfPresent(test) ==
    IF test.visible # "absent" THEN "visible" ELSE "after_published"

\* test.get("visible", False) selects the visibility tag.
Visibility(test) ==
    IF test.visible = "True" THEN "visible" ELSE "after_published"

\* Variant of MakeRecord: the record is labelled with the source file.
MakeRecordSrcfile(test, score) ==
    [name |-> test.srcfile, score |-> score, max_score |-> 1,
     visibility |-> Visibility(test)]

\* The record the comprehension of run_all_tests builds for one test.
MakeRecord(test, score) ==
    [name |-> test.name, score |-> score, max_score |-> 1,
     visibility |-> Visibility(test)]

\* The values the worker of test i has put on its queue, read or not.
RECURSIVE GotValues(_)
GotValues(rd) ==
    IF rd = << >> THEN << >>
    ELSE (IF Head(rd).op = "get" THEN << Head(rd).val >> ELSE << >>)
         \o GotValues(Tail(rd))

Published(i) == GotValues(reads[i]) \o result_queue[i]

\* ------------------------------------------- values of the report functions
\* A Python string or number held in a dict.
Str(x) == [type |-> "str", s |-> x, n |-> 0]
Num(k) == [type |-> "num", s |-> "", n |-> k]

\* One item of a dict; a dict is the sequence of its items in insertion order.
Pair(k, v) == [k |-> k, v |-> v]

\* The dict literal of lines 69-76, for a record of results.
RecordDict(r) ==
    << Pair("name", Str(r.name)), Pair("score", Num(r.score)),
       Pair("max_score", Num(r.max_score)), Pair("visibility", Str(r.visibility)) >>

\* The list of dicts run_all_tests returns.
RECURSIVE RecordDicts(_)
RecordDicts(rs) ==
    IF rs = << >> THEN << >> ELSE << RecordDict(Head(rs)) >> \o RecordDicts(Tail(rs))

\* An argument of the report functions: a number, a string or a list of dicts.
NumArg(k) == [type |-> "num", n |-> k, s |-> "", items |-> << >>]
StrArg(x) == [type |-> "str", n |-> 0, s |-> x, items |-> << >>]
ListArg(ds) == [type |-> "list", n |-> 0, s |-> "", items |-> ds]

\* The numbers passed as a bare score, and the failure messages.
ScoreArgs == 0..3
Messages == {"syntax error", "missing file"}

\* format_gradescope_output: the one-key dict that is serialised.
format_gradescope_output(x) ==
    IF x.type = "num" THEN [key |-> "score", value |-> x]
    ELSE [key |-> "tests", value |-> x]

\* A token of JSON text.
Tok(t, text) == [t |-> t, text |-> text]

\* The decimal text of the small integers, and its inverse.
Digits == << "0", "1", "2", "3" >>
NumText(k) == Digits[k + 1]
ParseNum(text) == (CHOOSE k \in 1..Len(Digits) : Digits[k] = text) - 1

\* json.dump of a string or number.
DumpScalar(v) ==
    IF v.type = "str" THEN Tok("string", v.s) ELSE Tok("number", NumText(v.n))

\* json.dump of the items of a dict, in insertion order, comma separated.
RECURSIVE DumpItems(_)
DumpItems(d) ==
    IF d = << >> THEN << >>
    ELSE << Tok("string", Head(d).k), Tok("punct", ":"), DumpScalar(Head(d).v) >>
         \o (IF Tail(d) = << >> THEN << >> ELSE << Tok("punct", ",") >>)
         \o DumpItems(Tail(d))

\* json.dump of the dicts of a list, comma separated.
RECURSIVE DumpDicts(_)
DumpDicts(ds) ==
    IF ds = << >> THEN << >>
    ELSE << Tok("punct", "{") >> \o DumpItems(Head(ds)) \o << Tok("punct", "}") >>
         \o (IF Tail(ds) = << >> THEN << >> ELSE << Tok("punct", ",") >>)
         \o DumpDicts(Tail(ds))

\* json.dump of the value under the one key.
DumpArg(x) ==
    IF x.type = "num" THEN << Tok("number", NumText(x.n)) >>
    ELSE IF x.type = "str" THEN << Tok("string", x.s) >>
    ELSE << Tok("punct", "[") >> \o DumpDicts(x.items) \o << Tok("punct", "]") >>

\* json.dump(data, handle, ...): the text written, as tokens.
json_dump(data) ==
    << Tok("punct", "{"), Tok("string", data.key), Tok("punct", ":") >>
    \o DumpArg(data.value) \o << Tok("punct", "}") >>

\* The result of a parse that fails.
LoadError == [val |-> << >>, next |-> 0]

\* json.load of a string or number token.
LoadScalar(tok) ==
    IF tok.t = "string" THEN Str(tok.text) ELSE Num(ParseNum(tok.text))

\* json.load of the items of a dict, from position pos up to its "}".
RECURSIVE LoadItems(_, _, _)
LoadItems(toks, pos, acc) ==
    IF pos = 0 \/ pos > Len(toks) THEN LoadError
    ELSE IF toks[pos] = Tok("punct", "}") THEN [val |-> acc, next |-> pos + 1]
    ELSE IF toks[pos] = Tok("punct", ",") THEN LoadItems(toks, pos + 1, acc)
    ELSE IF pos + 2 > Len(toks) \/ toks[pos].t # "string"
            \/ toks[pos + 1] # Tok("punct", ":") \/ toks[pos + 2].t = "punct"
         THEN LoadError
    ELSE LoadItems(toks, pos + 3,
                   Append(acc, Pair(toks[pos].text, LoadScalar(toks[pos + 2]))))

\* json.load of the dicts of a list, from position pos up to its "]".
RECURSIVE LoadDicts(_, _, _)
LoadDicts(toks, pos, acc) ==
    IF pos = 0 \/ pos > Len(toks) THEN LoadError
    ELSE IF toks[pos] = Tok("punct", "]") THEN [val |-> acc, next |-> pos + 1]
    ELSE IF toks[pos] = Tok("punct", ",") THEN LoadDicts(toks, pos + 1, acc)
    ELSE IF toks[pos] # Tok("punct", "{") THEN LoadError
    ELSE LET d == LoadItems(toks, pos + 1, << >>)
         IN  IF d.next = 0 THEN LoadError
             ELSE LoadDicts(toks, d.next, Append(acc, d.val))

\* json.load of the value under the one key, at position pos.
LoadArg(toks, pos) ==
    IF pos > Len(toks) THEN [val |-> NumArg(0), next |-> 0]
    ELSE IF toks[pos].t = "number"
         THEN [val |-> NumArg(ParseNum(toks[pos].text)), next |-> pos + 1]
    ELSE IF toks[pos].t = "string"
         THEN [val |-> StrArg(toks[pos].text), next |-> pos + 1]
    ELSE IF toks[pos] = Tok("punct", "[")
         THEN LET l == LoadDicts(toks, pos + 1, << >>)
              IN  [val |-> ListArg(l.val), next |-> l.next]
    ELSE [val |-> NumArg(0), next |-> 0]

\* json.load of a whole file: the one-key dict, or "error" for text that is
\* not one JSON document of that shape.
json_load(toks) ==
    IF Len(toks) < 5 \/ toks[1] # Tok("punct", "{") \/ toks[2].t # "string"
       \/ toks[3] # Tok("punct", ":")
    THEN [key |-> "error", value |-> NumArg(0)]
    ELSE LET a == LoadArg(toks, 4)
         IN  IF a.next = Len(toks) /\ toks[a.next] = Tok("punct", "}")
             THEN [key |-> toks[2].text, value |-> a.val]
             ELSE [key |-> "error", value |-> NumArg(0)]

\* path = "/autograder/results" if is_prod else "."
ReportDir(is_prod) == IF is_prod THEN "/autograder/results" ELSE "."

\* f"{path}/results.json"
ResultsFile(path) ==
    IF path = "." THEN "./results.json" ELSE "/autograder/results/results.json"

Files == { ResultsFile(ReportDir(b)) : b \in BOOLEAN }

\* No call of the report functions has been made.
NoCall == [fn |-> "none", arg |-> NumArg(0), is_prod |-> FALSE]

\* -------------------------------------------------------------------- Init
Init ==
    /\ \E n \in 0..MaxTests, o \in 0..(Len(TestPool) - 1) : tests = TestList(n, o)
    /\ zero_credit \in BOOLEAN
    /\ results = << >>
    /\ console = << >>
    /\ opc = "start"
    /\ idx = 1
    /\ spc = "idle"
    /\ ret = "None"
    /\ wpc = [i \in TestIds |-> "unborn"]
    /\ exitkind = [i \in TestIds |-> "none"]
    /\ terminated = [i \in TestIds |-> FALSE]
    /\ result_queue = [i \in TestIds |-> << >>]
    /\ reads = [i \in TestIds |-> << >>]
    /\ raised = [i \in TestIds |-> "none"]
    /\ other_task = 0
    /\ fs_dirs = {"."}
    /\ fs_files = [f \in Files |-> [exists |-> FALSE, text |-> << >>]]
    /\ call = NoCall

\* ------------------------------------------------ run_all_tests (coroutine)
\* print(f"Running {len(tests)} tests...")
PrintHeader ==
    /\ opc = "start"
    /\ console' = Append(console, Piece("header", "", Len(tests), 0))
    /\ opc' = "loop"
    /\ UNCHANGED << aux_vars, tests, zero_credit, results, idx >>
    /\ UNCHANGED << sup_vars, worker_vars, result_queue >>

\* One iteration of the comprehension with zero_credit set: score 0, and
\* run_test_wrapper is not called.
RecordZeroCredit ==
    /\ opc = "loop"
    /\ idx <= Len(tests)
    /\ zero_credit
    /\ results' = Append(results, MakeRecord(tests[idx], 0))
    /\ idx' = idx + 1
    /\ UNCHANGED << aux_vars, tests, zero_credit, console, opc >>
    /\ UNCHANGED << sup_vars, worker_vars, result_queue >>

\* Variant of WrapperStart: the prefix is not printed.
WrapperStartSilent ==
    /\ opc = "loop"
    /\ idx <= Len(tests)
    /\ ~zero_credit
    /\ opc' = "await"
    /\ spc' = "start"
    /\ UNCHANGED << aux_vars, tests, zero_credit, results, idx, console >>
    /\ UNCHANGED << ret, terminated, reads, worker_vars, result_queue >>

\* Variant of WrapperStart: run_test_wrapper is called whatever zero_credit is.
WrapperStartAlways ==
    /\ opc = "loop"
    /\ idx <= Len(tests)
    /\ console' = Append(console, Piece("running", tests[idx].srcfile, idx, 0))
    /\ opc' = "await"
    /\ spc' = "start"
    /\ UNCHANGED << aux_vars, tests, zero_credit, results, idx >>
    /\ UNCHANGED << ret, terminated, reads, worker_vars, result_queue >>

\* run_test_wrapper up to its await: prints the prefix and hands
\* run_test_in_process to a thread.
WrapperStart ==
    /\ opc = "loop"
    /\ idx <= Len(tests)
    /\ ~zero_credit
    /\ console' = Append(console, Piece("running", tests[idx].srcfile, idx, 0))
    /\ opc' = "await"
    /\ spc' = "start"
    /\ UNCHANGED << aux_vars, tests, zero_credit, results, idx >>
    /\ UNCHANGED << ret, terminated, reads, worker_vars, result_queue >>

\* Variant of WrapperScore: any truthy value passes.
WrapperScoreTruthy(v) ==
    IF MatchesNone(v) THEN 0
    ELSE IF Truthy(v) THEN 1
    ELSE 0

\* The score run_test_wrapper returns for a value of run_test_in_process.
WrapperScore(v) ==
    IF MatchesNone(v) THEN 0
    ELSE IF MatchesOne(v) THEN 1
    ELSE 0

\* The word run_test_wrapper prints for a value of run_test_in_process.
WrapperWord(v) ==
    IF MatchesNone(v) THEN "TIMED OUT"
    ELSE IF MatchesOne(v) THEN "PASSED"
    ELSE "FAILED"

\* run_test_wrapper after its await, and the rest of the iteration: the
\* match on the thread's result, the print, and the record.
WrapperFinish ==
    /\ opc = "await"
    /\ spc = "returned"
    /\ console' = Append(console, Piece("verdict", WrapperWord(ret), idx, 0))
    /\ results' = Append(results, MakeRecord(tests[idx], WrapperScore(ret)))
    /\ idx' = idx + 1
    /\ opc' = "loop"
    /\ spc' = "idle"
    /\ UNCHANGED << aux_vars, tests, zero_credit >>
    /\ UNCHANGED << ret, terminated, reads, worker_vars, result_queue >>

\* print(f"{get_score(results)}/{len(tests)} tests passed."); return results
Summary ==
    /\ opc = "loop"
    /\ idx > Len(tests)
    /\ console' = Append(console,
                         Piece("summary", "", Len(tests), get_score(results)))
    /\ opc' = "done"
    /\ UNCHANGED << aux_vars, tests, zero_credit, results, idx >>
    /\ UNCHANGED << sup_vars, worker_vars, result_queue >>

\* ------------------------------------------- run_test_in_process (thread)
\* result_queue = Queue(); p = Process(...); p.start()
StartProcess ==
    /\ spc = "start"
    /\ result_queue' = [result_queue EXCEPT ![idx] = << >>]
    /\ wpc' = [wpc EXCEPT ![idx] = "setup"]
    /\ spc' = "join"
    /\ UNCHANGED << aux_vars, orch_vars, ret, terminated, reads, exitkind, raised >>

\* Variant of JoinTimeout: the queue is looked at without the is_alive check.
JoinSkipsAliveCheck ==
    /\ spc = "join"
    /\ spc' = "empty"
    /\ UNCHANGED << aux_vars, orch_vars, ret, terminated, reads, worker_vars, result_queue >>

\* p.join(timeout) returns: the worker has exited or the timeout has run out.
JoinTimeout ==
    /\ spc = "join"
    /\ spc' = "is_alive"
    /\ UNCHANGED << aux_vars, orch_vars, ret, terminated, reads, worker_vars, result_queue >>

\* Variant of CheckAlive: a live worker is not terminated.
CheckAliveNoTerminate ==
    /\ spc = "is_alive"
    /\ spc' = "empty"
    /\ UNCHANGED << aux_vars, orch_vars, ret, terminated, reads, worker_vars, result_queue >>

\* if p.is_alive():
CheckAlive ==
    /\ spc = "is_alive"
    /\ spc' = IF IsAlive(idx) THEN "terminate" ELSE "empty"
    /\ UNCHANGED << aux_vars, orch_vars, ret, terminated, reads, worker_vars, result_queue >>

\* Variant of Terminate: no signal reaches the worker.
TerminateNoSignal ==
    /\ spc = "terminate"
    /\ spc' = "join_terminated"
    /\ UNCHANGED << aux_vars, orch_vars, ret, terminated, reads, worker_vars, result_queue >>

\* p.terminate()
Terminate ==
    /\ spc = "terminate"
    /\ terminated' = [terminated EXCEPT ![idx] = TRUE]
    /\ spc' = "join_terminated"
    /\ UNCHANGED << aux_vars, orch_vars, ret, reads, worker_vars, result_queue >>

\* Variant of JoinTerminated: returns without the second join.
ReturnWithoutJoin ==
    /\ spc = "join_terminated"
    /\ ret' = "None"
    /\ spc' = "returned"
    /\ UNCHANGED << aux_vars, orch_vars, terminated, reads, worker_vars, result_queue >>

\* Variant of JoinTerminated: a value found on the queue is returned.
JoinTerminatedUsesQueue ==
    /\ spc = "join_terminated"
    /\ ~IsAlive(idx)
    /\ ret' = IF result_queue[idx] # << >> THEN Head(result_queue[idx]) ELSE "None"
    /\ spc' = "returned"
    /\ UNCHANGED << aux_vars, orch_vars, terminated, reads, worker_vars, result_queue >>

\* p.join(); return None
JoinTerminated ==
    /\ spc = "join_terminated"
    /\ ~IsAlive(idx)
    /\ ret' = "None"
    /\ spc' = "returned"
    /\ UNCHANGED << aux_vars, orch_vars, terminated, reads, worker_vars, result_queue >>

\* Variant of CheckEmpty: an empty queue gives None.
CheckEmptyReturnsNone ==
    /\ spc = "empty"
    /\ reads' = [reads EXCEPT ![idx] =
                    Append(@, [op |-> "empty", alive |-> IsAlive(idx), val |-> "-"])]
    /\ IF result_queue[idx] # << >>
       THEN /\ spc' = "get"
            /\ UNCHANGED ret
       ELSE /\ spc' = "returned"
            /\ ret' = "None"
    /\ UNCHANGED << aux_vars, orch_vars, terminated, worker_vars, result_queue >>

\* if not result_queue.empty(): ... else: return 0
CheckEmpty ==
    /\ spc = "empty"
    /\ reads' = [reads EXCEPT ![idx] =
                    Append(@, [op |-> "empty", alive |-> IsAlive(idx), val |-> "-"])]
    /\ IF result_queue[idx] # << >>
       THEN /\ spc' = "get"
            /\ UNCHANGED ret
       ELSE /\ spc' = "returned"
            /\ ret' = "0"
    /\ UNCHANGED << aux_vars, orch_vars, terminated, worker_vars, result_queue >>

\* Variant of QueueGet: one queue is shared by all the tests, so the value
\* taken may be one an earlier worker left behind.
QueueGetShared ==
    /\ spc = "get"
    /\ \E j \in 1..idx :
          /\ result_queue[j] # << >>
          /\ reads' = [reads EXCEPT ![idx] =
                          Append(@, [op |-> "get", alive |-> IsAlive(idx),
                                     val |-> Head(result_queue[j])])]
          /\ ret' = Head(result_queue[j])
          /\ result_queue' = [result_queue EXCEPT ![j] = Tail(@)]
    /\ spc' = "returned"
    /\ UNCHANGED << aux_vars, orch_vars, terminated, worker_vars >>

\* return result_queue.get()
QueueGet ==
    /\ spc = "get"
    /\ result_queue[idx] # << >>
    /\ reads' = [reads EXCEPT ![idx] =
                    Append(@, [op |-> "get", alive |-> IsAlive(idx),
                               val |-> Head(result_queue[idx])])]
    /\ ret' = Head(result_queue[idx])
    /\ result_queue' = [result_queue EXCEPT ![idx] = Tail(@)]
    /\ spc' = "returned"
    /\ UNCHANGED << aux_vars, orch_vars, terminated, worker_vars >>

\* ------------------------------------------------ run_test (worker process)
\* environment = scaffold.setup(test_case) returns.
SetupReturns(i) ==
    /\ wpc[i] = "setup"
    /\ wpc' = [wpc EXCEPT ![i] = "run_test_case"]
    /\ UNCHANGED << aux_vars, orch_vars, sup_vars, exitkind, raised, result_queue >>

\* scaffold.setup raises: the call is outside the try, the exception leaves
\* run_test and the process ends with nothing put on the queue.
SetupRaises(i) ==
    /\ wpc[i] = "setup"
    /\ raised' = [raised EXCEPT ![i] = "setup"]
    /\ wpc' = [wpc EXCEPT ![i] = "exited"]
    /\ exitkind' = [exitkind EXCEPT ![i] = "uncaught"]
    /\ UNCHANGED << aux_vars, orch_vars, sup_vars, result_queue >>

\* Variant of RunReturns: the result is put a second time.
RunReturnsPutsTwice(i, v) ==
    /\ wpc[i] = "run_test_case"
    /\ result_queue' = [result_queue EXCEPT ![i] = @ \o << v, v >>]
    /\ wpc' = [wpc EXCEPT ![i] = "finishing"]
    /\ UNCHANGED << aux_vars, orch_vars, sup_vars, exitkind, raised >>

\* result = scaffold.run_test_case(...); result_queue.put(result)
RunReturns(i, v) ==
    /\ wpc[i] = "run_test_case"
    /\ result_queue' = [result_queue EXCEPT ![i] = Append(@, v)]
    /\ wpc' = [wpc EXCEPT ![i] = "finishing"]
    /\ UNCHANGED << aux_vars, orch_vars, sup_vars, exitkind, raised >>

\* An Exception is raised inside the try statement, by scaffold.run_test_case
\* or by the put that follows it, with nothing put: control enters the handler.
RunRaises(i) ==
    /\ wpc[i] = "run_test_case"
    /\ raised' = [raised EXCEPT ![i] = "run_test_case"]
    /\ wpc' = [wpc EXCEPT ![i] = "except"]
    /\ UNCHANGED << aux_vars, orch_vars, sup_vars, exitkind, result_queue >>

\* Variant of ExceptHandler: the exception is logged but nothing is put.
ExceptHandlerNoPut(i) ==
    /\ wpc[i] = "except"
    /\ console' = Append(console, Piece("exception", "", i, 0))
    /\ wpc' = [wpc EXCEPT ![i] = "finishing"]
    /\ UNCHANGED << aux_vars, tests, zero_credit, results, opc, idx >>
    /\ UNCHANGED << sup_vars, exitkind, raised, result_queue >>

\* except Exception: print(f"Exception during test: ..."); result_queue.put(0)
ExceptHandler(i) ==
    /\ wpc[i] = "except"
    /\ console' = Append(console, Piece("exception", "", i, 0))
    /\ result_queue' = [result_queue EXCEPT ![i] = Append(@, "0")]
    /\ wpc' = [wpc EXCEPT ![i] = "finishing"]
    /\ UNCHANGED << aux_vars, tests, zero_credit, results, opc, idx >>
    /\ UNCHANGED << sup_vars, exitkind, raised >>

\* run_test has returned and the process exits.
WorkerExit(i) ==
    /\ wpc[i] = "finishing"
    /\ wpc' = [wpc EXCEPT ![i] = "exited"]
    /\ exitkind' = [exitkind EXCEPT ![i] = "normal"]
    /\ UNCHANGED << aux_vars, orch_vars, sup_vars, raised, result_queue >>

\* The process ends abnormally (os._exit, a fatal signal, SystemExit).
WorkerCrash(i) ==
    /\ IsAlive(i)
    /\ wpc' = [wpc EXCEPT ![i] = "exited"]
    /\ exitkind' = [exitkind EXCEPT ![i] = "crash"]
    /\ UNCHANGED << aux_vars, orch_vars, sup_vars, raised, result_queue >>

\* The signal sent by p.terminate() ends the process.
WorkerKilled(i) ==
    /\ IsAlive(i)
    /\ terminated[i]
    /\ wpc' = [wpc EXCEPT ![i] = "exited"]
    /\ exitkind' = [exitkind EXCEPT ![i] = "sigterm"]
    /\ UNCHANGED << aux_vars, orch_vars, sup_vars, raised, result_queue >>

\* -------------------------------------------------------------------- Next
Orchestrator ==
    \/ PrintHeader
    \/ RecordZeroCredit
    \/ WrapperStart
    \/ WrapperFinish
    \/ Summary

Supervisor ==
    \/ StartProcess
    \/ JoinTimeout
    \/ CheckAlive
    \/ Terminate
    \/ JoinTerminated
    \/ CheckEmpty
    \/ QueueGet

Worker(i) ==
    \/ SetupReturns(i)
    \/ SetupRaises(i)
    \/ \E v \in PyVals : RunReturns(i, v)
    \/ RunRaises(i)
    \/ ExceptHandler(i)
    \/ WorkerExit(i)
    \/ WorkerCrash(i)
    \/ WorkerKilled(i)

Next ==
    \/ Orchestrator
    \/ Supervisor
    \/ \E i \in TestIds : Worker(i)

Spec == Init /\ [][Next]_vars

\* The scheduler runs the coroutine and the thread whenever they can take a
\* step, and a process that was sent the termination signal ends.
FairSpec ==
    /\ Spec
    /\ WF_vars(Orchestrator)
    /\ WF_vars(Supervisor)
    /\ \A i \in TestIds : WF_vars(WorkerKilled(i))

\* ------------------------------------------ another task of the event loop
main_vars == << tests, zero_credit, results, console, opc, idx, spc, ret,
                wpc, exitkind, terminated, result_queue, reads, raised >>

\* Variant of LoopFree: run_test_in_process is called in the coroutine itself,
\* which keeps the event loop until it returns.
LoopBlocked == FALSE

\* The event loop can run other tasks: the coroutine is suspended in
\* `await asyncio.to_thread(...)`.
LoopFree == opc = "await"

\* A step of some other task scheduled on the same event loop.
OtherTaskStep ==
    /\ LoopFree
    /\ other_task' = 1 - other_task
    /\ UNCHANGED << main_vars, fs_dirs, fs_files, call >>

LoopNext ==
    \/ Orchestrator
    \/ Supervisor
    \/ \E i \in TestIds : Worker(i)
    \/ OtherTaskStep

LoopSpec == Init /\ [][LoopNext]_vars

\* -------------------------------------------------------- the report writer
\* Variant of WriteReport: the file is opened for appending.
WriteReportAppending(score, is_prod) ==
    LET path == ReportDir(is_prod)
        data == format_gradescope_output(score)
    IN  /\ IF path \notin fs_dirs
           THEN /\ console' = Append(console, Piece("creating", path, 0, 0))
                /\ fs_dirs' = fs_dirs \cup {path}
           ELSE UNCHANGED << console, fs_dirs >>
        /\ fs_files' = [fs_files EXCEPT ![ResultsFile(path)] =
                           [exists |-> TRUE, text |-> @.text \o json_dump(data)]]

\* The body of write_gradescope_output: the directory is created if it is
\* missing, and results.json is opened with "w" and written.
WriteReport(score, is_prod) ==
    LET path == ReportDir(is_prod)
        data == format_gradescope_output(score)
    IN  /\ IF path \notin fs_dirs
           THEN /\ console' = Append(console, Piece("creating", path, 0, 0))
                /\ fs_dirs' = fs_dirs \cup {path}
           ELSE UNCHANGED << console, fs_dirs >>
        /\ fs_files' = [fs_files EXCEPT ![ResultsFile(path)] =
                           [exists |-> TRUE, text |-> json_dump(data)]]

report_frame == << tests, zero_credit, results, opc, idx, spc, ret, wpc, exitkind,
                   terminated, result_queue, reads, raised, other_task >>

\* write_gradescope_output(score, is_prod)
write_gradescope_output(score, is_prod) ==
    /\ WriteReport(score, is_prod)
    /\ call' = [fn |-> "write_gradescope_output", arg |-> score, is_prod |-> is_prod]
    /\ UNCHANGED report_frame

\* The caller writes a bare number.
WriteNumber ==
    \E k \in ScoreArgs, b \in BOOLEAN : write_gradescope_output(NumArg(k), b)

\* The caller writes the list run_all_tests returned.
WriteResults ==
    \E b \in BOOLEAN : write_gradescope_output(ListArg(RecordDicts(results)), b)

\* Variant of FailureDict: the message is left out.
FailureDictNoMessage(msg) ==
    << Pair("score", Num(0)), Pair("status", Str("failed")),
       Pair("name", Str("Pre-launch check")), Pair("output", Str("")) >>

\* The dict literal of write_gradescope_output_failure.
FailureDict(msg) ==
    << Pair("score", Num(0)), Pair("status", Str("failed")),
       Pair("name", Str("Pre-launch check")), Pair("output", Str(msg)) >>

\* write_gradescope_output_failure(msg, is_prod)
write_gradescope_output_failure(msg, is_prod) ==
    /\ WriteReport(ListArg(<< FailureDict(msg) >>), is_prod)
    /\ call' = [fn |-> "write_gradescope_output_failure", arg |-> StrArg(msg),
                is_prod |-> is_prod]
    /\ UNCHANGED report_frame

WriteFailure ==
    \E msg \in Messages, b \in BOOLEAN : write_gradescope_output_failure(msg, b)

\* The caller holds a list of records as run_all_tests returns them (or none,
\* before a launch failure); the production directory may be missing.
ToolInit ==
    /\ \E n \in 0..MaxTests, o \in 0..(Len(TestPool) - 1) :
          /\ tests = TestList(n, o)
          /\ \E sc \in [1..n -> {0, 1}] :
                results = [k \in 1..n |-> MakeRecord(tests[k], sc[k])]
    /\ zero_credit = FALSE
    /\ console = << >>
    /\ opc = "done"
    /\ idx = Len(tests) + 1
    /\ spc = "idle"
    /\ ret = "None"
    /\ wpc = [i \in TestIds |-> "unborn"]
    /\ exitkind = [i \in TestIds |-> "none"]
    /\ terminated = [i \in TestIds |-> FALSE]
    /\ result_queue = [i \in TestIds |-> << >>]
    /\ reads = [i \in TestIds |-> << >>]
    /\ raised = [i \in TestIds |-> "none"]
    /\ other_task = 0
    /\ fs_dirs \in {{"."}, {".", "/autograder/results"}}
    /\ fs_files = [f \in Files |-> [exists |-> FALSE, text |-> << >>]]
    /\ call = NoCall

ToolNext ==
    \/ WriteNumber
    \/ WriteResults
    \/ WriteFailure

ToolSpec == ToolInit /\ [][ToolNext]_vars

\* ================================================================== claims
\* The test at position i has its record (its iteration is over).
Finished(i) == i < idx /\ i <= Len(results)

\* The words run_test_wrapper has printed for the test at position i.
VerdictsOf(i) ==
    { console[k].text : k \in { j \in DOMAIN console :
                                  console[j].kind = "verdict" /\ console[j].n = i } }

\* The number of verdict words printed for the test at position i.
VerdictCount(i) ==
    Cardinality({ j \in DOMAIN console :
                    console[j].kind = "verdict" /\ console[j].n = i })

\* The worker of test i has printed its "Exception during test" line.
Logged(i) ==
    \E k \in DOMAIN console : console[k].kind = "exception" /\ console[k].n = i

\* C1: when run_all_tests returns, the list has as many records as there are
\* test cases and the i-th record carries the name of the i-th test case,
\* whatever the workers did.
C1_LengthAndOrder ==
    /\ Len(results) <= Len(tests)
    /\ \A k \in 1..Len(results) : results[k].name = tests[k].name
    /\ (opc = "done" => Len(results) = Len(tests))

C1_Witness ==
    /\ opc = "done"
    /\ Len(tests) = 2
    /\ exitkind[1] = "sigterm"
    /\ exitkind[2] \in {"crash", "uncaught"}

\* C2 as stated: with zero_credit false the score is 1 exactly when
\* run_test_case returned a truthy value and the worker was not timed out.
C2_TruthyScoresOne ==
    \A k \in 1..Len(results) :
        ~zero_credit =>
            results[k].score =
                IF /\ ~terminated[k]
                   /\ raised[k] = "none"
                   /\ Published(k) # << >>
                   /\ Truthy(Head(Published(k)))
                THEN 1 ELSE 0

\* C2 amended: with zero_credit false the score is 1 exactly when the value
\* run_test_case returned equals 1 and the worker was seen to have exited at
\* the is_alive check; every other outcome scores 0.
C2_EqualOneScoresOne ==
    \A k \in 1..Len(results) :
        ~zero_credit =>
            results[k].score =
                IF /\ ~terminated[k]
                   /\ raised[k] = "none"
                   /\ Published(k) # << >>
                   /\ MatchesOne(Head(Published(k)))
                THEN 1 ELSE 0

C2_Witness ==
    /\ Len(results) = 2
    /\ results[1].score = 1
    /\ results[2].score = 0
    /\ Published(2) = << "2" >>
    /\ ~terminated[2]

\* C3: under fair scheduling run_all_tests eventually returns, with one
\* record and one printed verdict per test case, whatever each worker does.
C3_EventuallyReturns ==
    <>( /\ opc = "done"
        /\ Len(results) = Len(tests)
        /\ (~zero_credit => \A i \in 1..Len(tests) : VerdictCount(i) = 1) )

C3_Witness ==
    /\ opc = "done"
    /\ Len(tests) = 2
    /\ exitkind[1] = "uncaught"
    /\ exitkind[2] = "sigterm"
    /\ wpc[2] = "exited"

\* C4: once run_test_in_process has returned for a test its worker is not
\* running, and a test whose worker was sent the termination signal returns
\* None, scores 0 and prints TIMED OUT.
C4_NoWorkerAfterReturn ==
    \A i \in TestIds :
        /\ (Finished(i) \/ (i = idx /\ spc = "returned")) => ~IsAlive(i)
        /\ (terminated[i] /\ i = idx /\ spc = "returned") => ret = "None"
        /\ (terminated[i] /\ Finished(i)) =>
               results[i].score = 0 /\ VerdictsOf(i) = {"TIMED OUT"}

C4_Witness ==
    \E i \in TestIds :
        /\ Finished(i)
        /\ terminated[i]
        /\ exitkind[i] = "sigterm"
        /\ VerdictsOf(i) = {"TIMED OUT"}

\* C5: with zero_credit true no worker is ever started, run_test_wrapper and
\* run_test_in_process are never entered, and every record has score 0.
C5_ZeroCreditSpawnsNothing ==
    zero_credit =>
        /\ \A i \in TestIds : wpc[i] = "unborn"
        /\ spc = "idle"
        /\ opc # "await"
        /\ \A k \in DOMAIN console : console[k].kind \in {"header", "summary"}
        /\ \A k \in 1..Len(results) : results[k].score = 0

C5_Witness ==
    /\ zero_credit
    /\ opc = "done"
    /\ Len(results) = 2

\* C6: at most one worker is alive at a time, and a worker has been started
\* only when every earlier test's worker has exited and its record exists.
C6_OneWorkerAtATime ==
    /\ Cardinality({ i \in TestIds : IsAlive(i) }) <= 1
    /\ \A i \in TestIds :
           wpc[i] # "unborn" =>
               \A j \in 1..(i - 1) : ~IsAlive(j) /\ j <= Len(results)

C6_Witness ==
    /\ IsAlive(2)
    /\ exitkind[1] = "sigterm"
    /\ Len(results) = 1

\* C7 as stated: an exception raised by setup or by run_test_case is caught
\* in the worker, logged, and 0 is put on the queue before the worker exits.
C7_AnyExceptionCaught ==
    \A i \in TestIds :
        (raised[i] # "none" /\ (wpc[i] = "finishing" \/ exitkind[i] \in {"normal", "uncaught"})) =>
            Logged(i) /\ Published(i) = << "0" >>

\* C7 amended: an Exception raised by run_test_case is caught, logged and 0
\* is put on the queue before the worker exits; an exception raised by setup
\* is not caught, and the worker exits with nothing logged and nothing put.
C7_RunExceptionCaught ==
    \A i \in TestIds :
        /\ (raised[i] = "run_test_case" /\ (wpc[i] = "finishing" \/ exitkind[i] = "normal")) =>
               Logged(i) /\ Published(i) = << "0" >>
        /\ raised[i] = "setup" =>
               /\ ~Logged(i)
               /\ Published(i) = << >>
               /\ wpc[i] = "exited"
               /\ exitkind[i] = "uncaught"
        /\ exitkind[i] = "uncaught" => raised[i] = "setup"

C7_Witness ==
    \E i \in TestIds :
        /\ raised[i] = "run_test_case"
        /\ exitkind[i] = "normal"
        /\ Logged(i)
        /\ Finished(i)

\* C8: every access of the supervisor to the queue (empty or get) is made
\* when the worker has exited, at most one value is taken from the queue of a
\* test (one empty check, then at most one get), and a test that timed out
\* has no access at all.
C8_ReadsAfterExit ==
    \A i \in TestIds :
        /\ \A k \in DOMAIN reads[i] : ~reads[i][k].alive
        /\ Len(GotValues(reads[i])) <= 1
        /\ Len(reads[i]) <= 2
        /\ (Len(reads[i]) >= 1 => reads[i][1].op = "empty")
        /\ (Len(reads[i]) = 2 => reads[i][2].op = "get")
        /\ (terminated[i] => reads[i] = << >>)
        /\ (i = idx /\ spc \in {"empty", "get"}) => ~IsAlive(i)

C8_Witness ==
    /\ Len(reads[1]) = 2
    /\ terminated[2]
    /\ result_queue[2] # << >>
    /\ Finished(2)

\* C9: a value the worker has put is used only if the worker was seen to have
\* exited at the is_alive check; if the worker was still alive there, the
\* value stays unread on the queue, the worker is terminated and the test is
\* reported TIMED OUT with score 0.
C9_LatePushDiscarded ==
    \A i \in TestIds :
        /\ (GotValues(reads[i]) # << >>) => ~terminated[i]
        /\ (Finished(i) /\ terminated[i] /\ Published(i) # << >>) =>
               /\ result_queue[i] = Published(i)
               /\ ~IsAlive(i)
               /\ results[i].score = 0
               /\ VerdictsOf(i) = {"TIMED OUT"}

C9_Witness ==
    \E i \in TestIds :
        /\ Finished(i)
        /\ terminated[i]
        /\ result_queue[i] = << "1" >>
        /\ results[i].score = 0

\* C10: a worker that has exited when is_alive is checked and has put nothing
\* on the queue gives a FAILED test with score 0, not a timed-out one, and
\* the batch goes on.
C10_EmptyQueueFails ==
    \A i \in TestIds :
        /\ (i = idx /\ spc = "returned" /\ ~terminated[i] /\ Published(i) = << >>) =>
               ret = "0"
        /\ (Finished(i) /\ wpc[i] = "exited" /\ ~terminated[i] /\ Published(i) = << >>) =>
               /\ results[i].score = 0
               /\ VerdictsOf(i) = {"FAILED"}

C10_Witness ==
    /\ Finished(1)
    /\ exitkind[1] \in {"crash", "uncaught"}
    /\ ~terminated[1]
    /\ Published(1) = << >>
    /\ VerdictsOf(1) = {"FAILED"}
    /\ IsAlive(2)

\* The number of records with score 1.
ScoreOneCount(rs) == Cardinality({ k \in 1..Len(rs) : rs[k].score = 1 })

\* C11: a test is reported TIMED OUT exactly when its worker was still alive
\* at the is_alive check and was terminated; a worker that has put a value
\* and exited in time gives PASSED or FAILED.
C11_TimedOutIffTerminated ==
    \A i \in TestIds :
        (Finished(i) /\ wpc[i] # "unborn") =>
            /\ ("TIMED OUT" \in VerdictsOf(i)) <=> terminated[i]
            /\ (~terminated[i] /\ Published(i) # << >>) =>
                   VerdictsOf(i) \subseteq {"PASSED", "FAILED"}

\* C12: get_score gives the number of records with score 1, for the empty
\* list too, and the summary line carries that number and the number of tests.
C12_PassCount ==
    /\ get_score(results) = ScoreOneCount(results)
    /\ \A k \in DOMAIN console :
           console[k].kind = "summary" =>
               /\ console[k].m = ScoreOneCount(results)
               /\ console[k].n = Len(tests)

C12_Witness ==
    /\ opc = "done"
    /\ Len(results) = 2
    /\ results[1].score = 1
    /\ results[2].score = 0
    /\ console[Len(console)].kind = "summary"
    /\ console[Len(console)].m = 1

\* The console is: the header, then for each test in order its prefix
\* directly followed by one verdict, then one summary line.
LinesInOrder(c) ==
    /\ Len(c) = 2 * Len(tests) + 2
    /\ c[1].kind = "header"
    /\ \A i \in 1..Len(tests) :
           /\ c[2 * i].kind = "running"
           /\ c[2 * i].text = tests[i].srcfile
           /\ c[2 * i].n = i
           /\ c[2 * i + 1].kind = "verdict"
           /\ c[2 * i + 1].n = i
           /\ c[2 * i + 1].text \in {"PASSED", "FAILED", "TIMED OUT"}
    /\ c[Len(c)].kind = "summary"
    /\ c[Len(c)].n = Len(tests)

\* The console without what the worker processes printed.
ParentLines == SelectSeq(console, LAMBDA x : x.kind # "exception")

\* C13 as stated: for every invocation the console has, for each test in
\* input order, the prefix followed by exactly one verdict, then the summary.
C13_OneLinePerTest ==
    opc = "done" => LinesInOrder(console)

\* C13 amended: with zero_credit false the parent prints, for each test in
\* input order, the prefix and then exactly one verdict, and the only thing
\* that can come between the two is the exception line of that test's own
\* worker; with zero_credit true only the header and the summary are
\* printed; the summary is last and its total is the number of tests.
C13_LinesPerTest ==
    opc = "done" =>
        IF zero_credit
        THEN /\ Len(console) = 2
             /\ console[1].kind = "header"
             /\ console[2].kind = "summary"
             /\ console[2].n = Len(tests)
        ELSE /\ LinesInOrder(ParentLines)
             /\ \A k \in DOMAIN console :
                    console[k].kind = "exception" =>
                        /\ k > 1 /\ k < Len(console)
                        /\ console[k - 1].kind = "running"
                        /\ console[k - 1].n = console[k].n
                        /\ console[k + 1].kind = "verdict"
                        /\ console[k + 1].n = console[k].n

C13_Witness ==
    /\ opc = "done"
    /\ ~zero_credit
    /\ Len(tests) = 2
    /\ Logged(1)
    /\ VerdictsOf(1) = {"FAILED"}
    /\ VerdictsOf(2) = {"TIMED OUT"}

C15_LastWriteRoundTrip ==
    call.fn = "write_gradescope_output" =>
        LET f == fs_files[ResultsFile(ReportDir(call.is_prod))]
        IN  /\ f.exists
            /\ ReportDir(call.is_prod) \in fs_dirs
            /\ f.text = json_dump(format_gradescope_output(call.arg))
            /\ json_load(f.text).value = call.arg
            /\ json_load(f.text).key = IF call.arg.type = "num" THEN "score" ELSE "tests"

C15_Witness ==
    /\ call.fn = "write_gradescope_output"
    /\ call.arg.type = "list"
    /\ Len(call.arg.items) = 2
    /\ call.is_prod
    /\ fs_files[ResultsFile(ReportDir(FALSE))].exists
    /\ json_load(fs_files[ResultsFile(ReportDir(TRUE))].text).value.items
           = RecordDicts(results)

\* C16: after write_gradescope_output_failure(msg, is_prod) the file at the
\* place write_gradescope_output uses for is_prod parses to {"tests": [r]}
\* with r = {score: 0, status: "failed", name: "Pre-launch check",
\* output: msg}, and no test has run and no worker exists.
C16_FailureReport ==
    call.fn = "write_gradescope_output_failure" =>
        LET f == fs_files[ResultsFile(ReportDir(call.is_prod))]
        IN  /\ f.exists
            /\ json_load(f.text) =
                   [key |-> "tests",
                    value |-> ListArg(<< << Pair("score", Num(0)),
                                            Pair("status", Str("failed")),
                                            Pair("name", Str("Pre-launch check")),
                                            Pair("output", Str(call.arg.s)) >> >>)]
            /\ \A i \in TestIds : wpc[i] = "unborn"
            /\ spc = "idle"

C16_Witness ==
    /\ call.fn = "write_gradescope_output_failure"
    /\ call.arg.s = "syntax error"
    /\ ~call.is_prod
    /\ fs_files["./results.json"].exists

\* C17: every record has score 0 or 1, max_score 1, and visibility "visible"
\* exactly when the test case has a truthy visible field, whatever the
\* outcome of the test.
C17_RecordShape ==
    \A k \in 1..Len(results) :
        /\ results[k].score \in {0, 1}
        /\ results[k].max_score = 1
        /\ results[k].visibility \in {"visible", "after_published"}
        /\ results[k].visibility = "visible" <=> tests[k].visible = "True"

C17_Witness ==
    /\ Len(results) = 2
    /\ tests[1].visible = "False"
    /\ results[1].score = 1
    /\ results[1].visibility = "after_published"
    /\ tests[2].visible = "absent"
    /\ terminated[2]
    /\ results[2].visibility = "after_published"

\* The score that test i's own worker and queue determine.
OwnScore(i) ==
    IF terminated[i] \/ Published(i) = << >> THEN 0
    ELSE WrapperScore(Head(Published(i)))

\* C18: a step starts the worker and the queue of the current test only, from
\* an unborn worker and an empty unread queue; it never touches the worker,
\* the queue or the record of another test; and a record's score is the one
\* its own worker's queue determines.
C18_OwnWorkerOwnQueue ==
    [][ /\ \A i \in TestIds :
              /\ (i # idx) =>
                     /\ wpc'[i] = wpc[i]
                     /\ result_queue'[i] = result_queue[i]
                     /\ reads'[i] = reads[i]
                     /\ terminated'[i] = terminated[i]
              /\ (wpc[i] = "unborn" /\ wpc'[i] # "unborn") =>
                     /\ result_queue[i] = << >>
                     /\ result_queue'[i] = << >>
                     /\ reads[i] = << >>
        /\ \A k \in 1..Len(results) : results'[k] = results[k]
        /\ ~zero_credit =>
               \A k \in 1..Len(results') : results'[k].score = OwnScore(k)' ]_vars

C18_Witness ==
    /\ Len(results) = 2
    /\ terminated[1]
    /\ result_queue[1] = << "1" >>
    /\ Published(2) = << "0" >>
    /\ results[2].score = 0
    /\ VerdictsOf(2) = {"FAILED"}

\* C19: the worker puts at most one value on its queue: none before the end
\* of the try statement or when it dies before a put, exactly one once
\* run_test has got past the try statement, and that value is 0 when an
\* exception was raised inside the try statement.
C19_AtMostOnePut ==
    \A i \in TestIds :
        /\ Len(Published(i)) <= 1
        /\ wpc[i] \in {"unborn", "setup", "run_test_case", "except"} =>
               Published(i) = << >>
        /\ (wpc[i] = "finishing" \/ exitkind[i] = "normal") =>
               /\ Len(Published(i)) = 1
               /\ Head(Published(i)) \in PyVals
               /\ (raised[i] # "none" => Published(i) = << "0" >>)
        /\ exitkind[i] = "uncaught" => Published(i) = << >>

C19_Witness ==
    /\ exitkind[1] = "normal"
    /\ raised[1] = "run_test_case"
    /\ Published(1) = << "0" >>
    /\ exitkind[2] = "crash"
    /\ Published(2) = << >>

====
